---- MODULE Spec2Model ----
(***************************************************************************)
(* Music League Analytics (src/main.py): load_data() reads four CSV tables *)
(* and builds two merged views; main() resolves the sidebar selection,     *)
(* filters the views and computes the figures of the tabs.                 *)
(*                                                                         *)
(* A DataFrame is a sequence of records (one record per row, one field per *)
(* column; a column name's blanks are written "_").  An optional value     *)
(* (Python None / a value) is a sequence of length 0 / 1.  A float that    *)
(* pandas computes by a division is kept exact as <<numerator,             *)
(* denominator>>; NaN is the empty sequence.                               *)
(***************************************************************************)
EXTENDS Integers, Sequences, FiniteSets, TLC

\* ------------------------------------------------------------------ bounds
\* Longest submissions.csv and votes.csv the model reads.
MaxSubs == 2
MaxVotes == 2

\* ------------------------------------------------------ program constants
\* min(5, len(comments_only)) rows are sampled; head(10) / nlargest(10, ...)
SampleSize == 5
TopK == 10

\* ------------------------------------------------------------- value types
None == <<>>
Some(x) == <<x>>
NaN == <<>>
NULL == "NaN"
AllRounds == "All Rounds"
AllCompetitors == "All Competitors"

StrLen(s) == CASE s = "nice" -> 4
               [] s = "ok" -> 2
               [] s = "" -> 0
               [] OTHER -> 3

\* The order of Python's string comparison on the strings of the model, by
\* which groupby and pivot_table sort their keys.
Collation ==
    <<"Ann", "Bob", "Week1", "Week2", "t1", "t2", "t3", "t4", "t5", "t6">>

Rank(str) == CHOOSE i \in 1..Len(Collation) : Collation[i] = str

\* The keys of a set in ascending order.
RECURSIVE SortedKeys(_)
SortedKeys(keys) ==
    IF keys = {} THEN <<>>
    ELSE LET least == CHOOSE k \in keys : \A o \in keys : Rank(k) <= Rank(o)
         IN <<least>> \o SortedKeys(keys \ {least})

\* All sequences over S of length at most n.
SeqsUpTo(S, n) == UNION {[1..k -> S] : k \in 0..n}

\* ------------------------------------------------------------ input files
\* competitors.csv: ID, Name.  Two competitors; the second may share the
\* first one's display name.
CompetitorTables(names) ==
    {<<[ID |-> "c1", Name |-> "Ann"], [ID |-> "c2", Name |-> n]>> : n \in names}

\* rounds.csv: ID, Name.
RoundTables(names) ==
    {<<[ID |-> "r1", Name |-> "Week1"], [ID |-> "r2", Name |-> n]>> : n \in names}

\* A submission is identified by its track within a round.
UniqueSubmissionKeys(subs) ==
    \A i, j \in 1..Len(subs) :
        (subs[i].Round_ID = subs[j].Round_ID
            /\ subs[i].Spotify_URI = subs[j].Spotify_URI) => i = j

\* A track has one title and one artist wherever it is submitted.
SubmissionRow(uri, rid, cid, comment) ==
    [Spotify_URI |-> uri, Title |-> "title of " \o uri,
     Artist_s |-> "artist of " \o uri, Round_ID |-> rid,
     Submitter_ID |-> cid, Comment |-> comment]

SubmissionTables(uris, rids, cids, comments) ==
    {s \in SeqsUpTo({SubmissionRow(u, r, c, m) :
                        u \in uris, r \in rids, c \in cids, m \in comments},
                    MaxSubs) :
        UniqueSubmissionKeys(s)}

VoteTables(rids, uris, cids, points) ==
    SeqsUpTo([Round_ID : rids, Spotify_URI : uris,
              Voter_ID : cids, Points_Assigned : points], MaxVotes)

DatasetsOver(cnames, rnames, suris, srids, scids, scomments, vrids, vuris, vcids, vpoints) ==
    [competitors : CompetitorTables(cnames),
     rounds      : RoundTables(rnames),
     submissions : SubmissionTables(suris, srids, scids, scomments),
     votes       : VoteTables(vrids, vuris, vcids, vpoints)]

\* Foreign keys that may dangle ("r3" is no round, "c3" no competitor):
\* tracks submitted in the first round or in an unknown one, votes cast in
\* either round by a known or an unknown voter.
ReferenceDatasets ==
    DatasetsOver({"Bob"}, {"Week2"},
                 {"t1", "t2"}, {"r1", "r3"}, {"c1"}, {"nice"},
                 {"r1", "r2"}, {"t1"}, {"c1", "c3"}, {3})

\* Consistent foreign keys; submitters, voters, rounds and points vary.
FilterDatasets ==
    DatasetsOver({"Bob"}, {"Week2"},
                 {"t1"}, {"r1", "r2"}, {"c1", "c2"}, {"nice"},
                 {"r1", "r2"}, {"t1"}, {"c1", "c2"}, {3})

\* One track submitted in either round by either competitor, with or
\* without a comment; votes of 3 or 4 points in the first round.
RollupDatasets ==
    DatasetsOver({"Bob"}, {"Week2"},
                 {"t1"}, {"r1", "r2"}, {"c1", "c2"}, {NULL, "nice"},
                 {"r1"}, {"t1"}, {"c1", "c2"}, {3, 4})

\* Display names that collide.
NameDatasets ==
    DatasetsOver({"Ann", "Bob"}, {"Week1", "Week2"},
                 {"t1"}, {"r1", "r2"}, {"c1", "c2"}, {"nice"},
                 {"r1"}, {"t1"}, {"c1", "c2"}, {3})

\* competitors.csv not in the order of the names; two tracks of one round
\* that may tie on submissions and on points.
RankingDatasets ==
    [competitors : {<<[ID |-> "c1", Name |-> "Bob"],
                      [ID |-> "c2", Name |-> "Ann"]>>},
     rounds      : RoundTables({"Week2"}),
     submissions : SubmissionTables({"t1", "t2"}, {"r1"}, {"c1", "c2"},
                                    {"nice"}),
     votes       : VoteTables({"r1"}, {"t1", "t2"}, {"c1"}, {3, 4})]

\* Track t1 belongs to round r1 and track t2 to round r2.
TrackOfRound(row) == (row.Spotify_URI = "t1") <=> (row.Round_ID = "r1")

\* Two voters and two rounds, each round with its own track.
MatrixDatasets ==
    [competitors : CompetitorTables({"Bob"}),
     rounds      : RoundTables({"Week2"}),
     submissions : {s \in SubmissionTables({"t1", "t2"}, {"r1", "r2"},
                                           {"c1"}, {"nice"}) :
                        \A i \in 1..Len(s) : TrackOfRound(s[i])},
     votes       : {v \in VoteTables({"r1", "r2"}, {"t1", "t2"},
                                     {"c1", "c2"}, {3}) :
                        \A i \in 1..Len(v) : TrackOfRound(v[i])}]

\* More commented submissions than one sample shows.
SampleDatasets ==
    [competitors : CompetitorTables({"Bob"}),
     rounds      : RoundTables({"Week2"}),
     submissions : {[i \in 1..(SampleSize + 1) |->
                        SubmissionRow(Collation[4 + i], "r1", "c1", "nice")]},
     votes       : {<<>>}]

Datasets == ReferenceDatasets \cup FilterDatasets \cup RollupDatasets
                \cup NameDatasets \cup RankingDatasets \cup MatrixDatasets
                \cup SampleDatasets

\* What can go wrong inside load_data's try block.
LoadOutcomes == {"ok", "read_error", "date_error", "merge_error"}

\* ------------------------------------------------------------------- state
VARIABLES
    files,                  \* the four CSV files under data/
    cached,                 \* st.cache_data holds load_data's return value
    load_exception,         \* what load_data's try block ran into
    data,                   \* load_data's return value (six optionals)
    page,                   \* outcome of the last run of main
    selected_round,         \* sidebar selectbox values
    selected_competitor,
    round_id,               \* ids resolved from the selected names
    competitor_id,
    filtered_votes,
    filtered_submissions,
    comment_stats,          \* tab 3 metrics
    competitor_stats,       \* tab 5, all competitors: one row each
    competitor_metrics,     \* tab 5, one competitor
    voting_consistency,     \* tab 2: mean and std per voter
    voting_matrix,          \* tab 2: voter x round pivot
    sample_comments,        \* tab 3: the sampled rows
    top_submissions,        \* tab 4, one round: first rows by points
    top_submitters,         \* tab 5, all competitors
    top_point_receivers

vars == <<files, cached, load_exception, data, page, selected_round,
          selected_competitor, round_id, competitor_id, filtered_votes,
          filtered_submissions, comment_stats, competitor_stats,
          competitor_metrics, voting_consistency, voting_matrix,
          sample_comments, top_submissions, top_submitters,
          top_point_receivers>>

\* ----------------------------------------------------------------- pandas
\* df[[cols]]
Project(df, cols) == [i \in 1..Len(df) |-> [c \in cols |-> df[i][c]]]

\* One row of a merge: the left row's columns, then the right row's; a
\* right column whose name the left row has takes the right suffix (the
\* left suffix is '' at every call), and a key given by on= appears once.
JoinRow(l, r, left_on, right_on, suffix) ==
    LET rcols == IF left_on = right_on THEN DOMAIN r \ {right_on}
                 ELSE DOMAIN r
        Renamed(c) == IF c \in DOMAIN l THEN c \o suffix ELSE c
        names == DOMAIN l \cup {Renamed(c) : c \in rcols}
    IN [n \in names |->
            IF n \in DOMAIN l THEN l[n]
            ELSE r[CHOOSE c \in rcols : Renamed(c) = n]]

RECURSIVE MergeFrom(_, _, _, _, _, _)
MergeFrom(i, left, right, left_on, right_on, suffix) ==
    IF i > Len(left) THEN <<>>
    ELSE LET hits == SelectSeq(right,
                         LAMBDA r : left[i][left_on] = r[right_on])
         IN [j \in 1..Len(hits) |->
                JoinRow(left[i], hits[j], left_on, right_on, suffix)]
             \o MergeFrom(i + 1, left, right, left_on, right_on, suffix)

\* DataFrame.merge with the default how='inner': every left row, in order,
\* paired with every right row of the same key; a left row without a match
\* yields no row.
Merge(left, right, left_on, right_on, suffix) ==
    MergeFrom(1, left, right, left_on, right_on, suffix)

RECURSIVE SumPoints(_)
SumPoints(df) ==
    IF df = <<>> THEN 0
    ELSE df[1].Points_Assigned + SumPoints(Tail(df))

\* Series.mean(): NaN on an empty series.
MeanPoints(df) == IF df = <<>> THEN NaN ELSE <<SumPoints(df), Len(df)>>

\* Comment.notna() & (Comment != '')
HasComment(row) == row.Comment # NULL /\ row.Comment # ""

WithComments(df) == SelectSeq(df, HasComment)

\* ---------------------------------------------------------------- load_data
submissions_with_rounds_of(submissions, rounds) ==
    Merge(submissions, Project(rounds, {"ID", "Name"}),
          "Round_ID", "ID", "_round")

votes_with_submissions_of(votes, swr) ==
    Merge(votes,
          Project(swr, {"Spotify_URI", "Title", "Artist_s", "Round_ID",
                        "Name", "Comment"}),
          "Spotify_URI", "Spotify_URI", "_submission")

\* A merge with how='left': a left row without a match is kept, its right
\* columns missing.
RECURSIVE MergeLeftFrom(_, _, _, _, _, _)
MergeLeftFrom(i, left, right, left_on, right_on, suffix) ==
    IF i > Len(left) THEN <<>>
    ELSE LET hits == SelectSeq(right,
                         LAMBDA r : left[i][left_on] = r[right_on])
             blank == [c \in DOMAIN right[1] |-> NULL]
             found == IF hits = <<>> THEN <<blank>> ELSE hits
         IN [j \in 1..Len(found) |->
                JoinRow(left[i], found[j], left_on, right_on, suffix)]
             \o MergeLeftFrom(i + 1, left, right, left_on, right_on, suffix)

\* The voter merge as a left join.
votes_with_voters_left(vws, competitors) ==
    MergeLeftFrom(1, vws, Project(competitors, {"ID", "Name"}),
                  "Voter_ID", "ID", "_voter")

votes_with_voters_of(vws, competitors) ==
    Merge(vws, Project(competitors, {"ID", "Name"}),
          "Voter_ID", "ID", "_voter")

NoTables ==
    [competitors |-> None, rounds |-> None, submissions |-> None,
     votes |-> None, votes_with_voters |-> None,
     submissions_with_rounds |-> None]

\* A handler that hands back what had been read before the exception.
load_data_partial(f, outcome) ==
    IF outcome = "read_error" THEN NoTables
    ELSE IF outcome \in {"date_error", "merge_error"}
    THEN [NoTables EXCEPT !.competitors = Some(f.competitors),
                          !.rounds = Some(f.rounds),
                          !.submissions = Some(f.submissions),
                          !.votes = Some(f.votes)]
    ELSE LET swr == submissions_with_rounds_of(f.submissions, f.rounds)
             vws == votes_with_submissions_of(f.votes, swr)
         IN [competitors |-> Some(f.competitors), rounds |-> Some(f.rounds),
             submissions |-> Some(f.submissions), votes |-> Some(f.votes),
             votes_with_voters |-> Some(votes_with_voters_of(vws, f.competitors)),
             submissions_with_rounds |-> Some(swr)]

\* The body of load_data: any exception of the try block ends in the six
\* Nones of the except branch.
load_data(f, outcome) ==
    IF outcome # "ok" THEN NoTables
    ELSE LET swr == submissions_with_rounds_of(f.submissions, f.rounds)
             vws == votes_with_submissions_of(f.votes, swr)
         IN [competitors |-> Some(f.competitors), rounds |-> Some(f.rounds),
             submissions |-> Some(f.submissions), votes |-> Some(f.votes),
             votes_with_voters |-> Some(votes_with_voters_of(vws, f.competitors)),
             submissions_with_rounds |-> Some(swr)]

\* --------------------------------------------------------------- the sidebar
round_names(rounds) ==
    {AllRounds} \cup {rounds[i].Name : i \in 1..Len(rounds)}

competitor_names(competitors) ==
    {AllCompetitors} \cup {competitors[i].Name : i \in 1..Len(competitors)}

\* table[table['Name'] == name]['ID'].iloc[0]
FirstIdByName(table, name) ==
    SelectSeq(table, LAMBDA row : row.Name = name)[1].ID

\* ------------------------------------------------------------ apply filters
RoundFilter(df, rid) ==
    SelectSeq(df, LAMBDA row : row.Round_ID = rid)

\* The votes on the competitor's own submissions instead of the votes cast.
CompetitorFilterVotesReceived(df, cid) ==
    SelectSeq(df, LAMBDA row :
        \E i \in 1..Len(files.submissions) :
            /\ files.submissions[i].Spotify_URI = row.Spotify_URI
            /\ files.submissions[i].Round_ID = row.Round_ID
            /\ files.submissions[i].Submitter_ID = cid)

CompetitorFilterVotes(df, cid) ==
    SelectSeq(df, LAMBDA row : row.Voter_ID = cid)

\* The restriction taken from the whole view, which drops the round filter.
CompetitorFilterSubmissionsUnfiltered(df, cid) ==
    SelectSeq(data.submissions_with_rounds[1],
              LAMBDA row : row.Submitter_ID = cid)

CompetitorFilterSubmissions(df, cid) ==
    SelectSeq(df, LAMBDA row : row.Submitter_ID = cid)

\* -------------------------------------------------------- tab 3: comments
RECURSIVE SumCommentLen(_)
SumCommentLen(df) ==
    IF df = <<>> THEN 0
    ELSE StrLen(df[1].Comment) + SumCommentLen(Tail(df))

\* total_comments is shown first; total_comments / len(filtered_submissions)
\* raises ZeroDivisionError on an empty frame and ends the run.
CommentStats(fs) ==
    LET total_comments == Len(WithComments(fs))
    IN IF Len(fs) = 0
       THEN [error |-> "ZeroDivisionError",
             total_comments |-> Some(total_comments),
             comment_rate |-> None,
             avg_comment_length |-> None]
       ELSE [error |-> "none",
             total_comments |-> Some(total_comments),
             comment_rate |-> Some(<<total_comments * 100, Len(fs)>>),
             avg_comment_length |->
                 Some(IF total_comments = 0 THEN NaN
                      ELSE <<SumCommentLen(WithComments(fs)), total_comments>>)]

NoCommentStats ==
    [error |-> "none", total_comments |-> None, comment_rate |-> None,
     avg_comment_length |-> None]

\* comments_only.sample(sample_size): sample_size rows of the frame drawn
\* without replacement from numpy's global generator, which main never
\* seeds.  The rows drawn are kept as a set; their order is not.
Samples(df, n) ==
    {rows \in SUBSET {df[i] : i \in 1..Len(df)} : Cardinality(rows) = n}

Min(a, b) == IF a < b THEN a ELSE b

\* What the sample block of tab 3 can show: nothing without comments.
SampleOutcomes(fs) ==
    LET comments_only == WithComments(fs)
    IN IF Len(comments_only) > 0
       THEN {Some(rows) :
                rows \in Samples(comments_only,
                                 Min(SampleSize, Len(comments_only)))}
       ELSE {None}

\* ------------------------------------------------- tab 2: voting patterns
RECURSIVE SumSquares(_)
SumSquares(df) ==
    IF df = <<>> THEN 0
    ELSE df[1].Points_Assigned * df[1].Points_Assigned
            + SumSquares(Tail(df))

\* The divisor n of the population deviation instead of n - 1.
StdPointsPopulation(df) ==
    IF df = <<>> THEN NaN
    ELSE <<Len(df) * SumSquares(df) - SumPoints(df) * SumPoints(df),
           Len(df) * Len(df)>>

\* Series.std() (ddof=1), kept as its square: the sum of squared deviations
\* over n - 1, that is (n * sum(x^2) - sum(x)^2) / (n * (n - 1)); NaN for
\* fewer than two values.
StdPoints(df) ==
    IF Len(df) < 2 THEN NaN
    ELSE <<Len(df) * SumSquares(df) - SumPoints(df) * SumPoints(df),
           Len(df) * (Len(df) - 1)>>

\* .fillna(0)
FillNaZero(x) == IF x = NaN THEN <<0, 1>> ELSE x

VoterNames(fv) == {fv[i].Name_voter : i \in 1..Len(fv)}

RoundNames(fv) == {fv[i].Name : i \in 1..Len(fv)}

\* groupby('Name_voter')['Points Assigned'].agg(['mean', 'std']) with the
\* std column filled: one row per voter name of the frame, names ascending.
VotingConsistency(fv) ==
    LET keys == SortedKeys(VoterNames(fv))
    IN [k \in 1..Len(keys) |->
          LET group == SelectSeq(fv, LAMBDA row : row.Name_voter = keys[k])
          IN [Name_voter |-> keys[k],
              mean |-> MeanPoints(group),
              std |-> FillNaZero(StdPoints(group))]]

\* The pivot without fill_value: NaN where the voter has no row.
VotingMatrixNoFill(fv) ==
    [index |-> SortedKeys(VoterNames(fv)),
     columns |-> SortedKeys(RoundNames(fv)),
     cell |-> [v \in VoterNames(fv), r \in RoundNames(fv) |->
                 MeanPoints(SelectSeq(fv, LAMBDA row :
                     row.Name_voter = v /\ row.Name = r))]]

\* pivot_table(index='Name_voter', columns='Name', values='Points Assigned',
\* aggfunc='mean', fill_value=0)
VotingMatrix(fv) ==
    [index |-> SortedKeys(VoterNames(fv)),
     columns |-> SortedKeys(RoundNames(fv)),
     cell |-> [v \in VoterNames(fv), r \in RoundNames(fv) |->
                 LET group == SelectSeq(fv, LAMBDA row :
                                  row.Name_voter = v /\ row.Name = r)
                 IN IF group = <<>> THEN <<0, 1>> ELSE MeanPoints(group)]]

\* ------------------------------------------------------------- rankings
RECURSIVE InsertDesc(_, _, _)
InsertDesc(sorted, row, col) ==
    IF sorted = <<>> THEN <<row>>
    ELSE IF sorted[1][col] >= row[col]
    THEN <<sorted[1]>> \o InsertDesc(Tail(sorted), row, col)
    ELSE <<row>> \o sorted

\* Rows by descending value; rows of equal value stay in the order they had.
\* (sort_values' default quicksort and nlargest's keep='first' both leave
\* ties in frame order on frames as short as the model's.)
RECURSIVE SortDescBy(_, _)
SortDescBy(df, col) ==
    IF df = <<>> THEN <<>>
    ELSE InsertDesc(SortDescBy(SubSeq(df, 1, Len(df) - 1), col),
                    df[Len(df)], col)

\* df.head(n)
HeadRows(df, n) == SubSeq(df, 1, Min(n, Len(df)))

\* df.nlargest(n, col)
NLargest(n, df, col) == HeadRows(SortDescBy(df, col), n)

\* -------------------------------------------------- tab 4: round insights
\* groupby('Spotify URI')['Points Assigned'].sum().reset_index()
PointsByTrack(round_votes) ==
    LET keys == SortedKeys({round_votes[i].Spotify_URI :
                                i \in 1..Len(round_votes)})
    IN [k \in 1..Len(keys) |->
          [Spotify_URI |-> keys[k],
           Points_Assigned |->
               SumPoints(SelectSeq(round_votes,
                   LAMBDA v : v.Spotify_URI = keys[k]))]]

\* The rows of the "Top 10 Submissions by Total Points" chart.
TopSubmissions(rid, submissions, votes) ==
    LET round_submissions == RoundFilter(submissions, rid)
        round_votes == RoundFilter(votes, rid)
        submission_points ==
            SortDescBy(
                Merge(PointsByTrack(round_votes),
                      Project(round_submissions,
                              {"Spotify_URI", "Title", "Artist_s", "Comment"}),
                      "Spotify_URI", "Spotify_URI", "_y"),
                "Points_Assigned")
    IN HeadRows(submission_points, TopK)

\* --------------------------------------------- main and the cached tables
\* A filter that narrowed the cached views themselves.
CachedFilteredInPlace(d, fv, fs) ==
    [d EXCEPT !.votes_with_voters = Some(fv),
              !.submissions_with_rounds = Some(fs)]

\* What a run of main leaves in the cache: the filters rebind main's local
\* names to the new frames that boolean indexing returns, and the only
\* column assignments of main (votes_over_time, voting_consistency) are on
\* frames main built itself.
CachedAfterMain(d, fv, fs) == d

Zero == <<0, 1>>

\* votes.merge(submissions[['Spotify URI', 'Submitter ID']], on='Spotify URI')
\* restricted to the competitor's rows.
VotesReceived(votes, submissions, cid) ==
    SelectSeq(
        Merge(votes, Project(submissions, {"Spotify_URI", "Submitter_ID"}),
              "Spotify_URI", "Spotify_URI", "_y"),
        LAMBDA row : row.Submitter_ID = cid)

\* The mean without the guard on the number of votes.
AvgPointsUnguarded(df) == MeanPoints(df)

\* df['Points Assigned'].mean() if len(df) > 0 else 0
AvgPoints(df) == IF Len(df) > 0 THEN MeanPoints(df) ELSE Zero

CompetitorStatsRow(competitor, submissions, votes) ==
    LET comp_submissions ==
            SelectSeq(submissions,
                      LAMBDA s : s.Submitter_ID = competitor.ID)
        comp_votes == VotesReceived(votes, submissions, competitor.ID)
        comp_voting ==
            SelectSeq(votes, LAMBDA v : v.Voter_ID = competitor.ID)
    IN [Name |-> competitor.Name,
        Submissions |-> Len(comp_submissions),
        Points_Received |-> SumPoints(comp_votes),
        Avg_Points_Received |-> AvgPoints(comp_votes),
        Votes_Cast |-> Len(comp_voting),
        Avg_Points_Given |-> AvgPoints(comp_voting),
        Comments |-> Len(WithComments(comp_submissions))]

CompetitorStats(competitors, submissions, votes) ==
    [i \in 1..Len(competitors) |->
        CompetitorStatsRow(competitors[i], submissions, votes)]

CompetitorMetrics(cid, submissions, votes) ==
    LET comp_submissions ==
            SelectSeq(submissions, LAMBDA s : s.Submitter_ID = cid)
    IN [Submissions |-> Len(comp_submissions),
        Points_Received |-> SumPoints(VotesReceived(votes, submissions, cid)),
        Votes_Cast |-> Len(SelectSeq(votes, LAMBDA v : v.Voter_ID = cid)),
        Comments |-> Len(WithComments(comp_submissions))]

\* ------------------------------------------------------------------ actions
Init ==
    /\ files \in Datasets
    /\ cached = FALSE
    /\ load_exception = "none"
    /\ data = NoTables
    /\ page = "none"
    /\ selected_round = AllRounds
    /\ selected_competitor = AllCompetitors
    /\ round_id = None
    /\ competitor_id = None
    /\ filtered_votes = None
    /\ filtered_submissions = None
    /\ comment_stats = NoCommentStats
    /\ competitor_stats = None
    /\ competitor_metrics = None
    /\ voting_consistency = None
    /\ voting_matrix = None
    /\ sample_comments = None
    /\ top_submissions = None
    /\ top_submitters = None
    /\ top_point_receivers = None

\* The first call of load_data in the process: st.cache_data runs the body
\* once and keeps what it returned.
LoadData ==
    /\ ~cached
    /\ \E outcome \in LoadOutcomes :
        /\ load_exception' = outcome
        /\ data' = load_data(files, outcome)
    /\ cached' = TRUE
    /\ UNCHANGED <<files, page, selected_round, selected_competitor, round_id,
                   competitor_id, filtered_votes, filtered_submissions,
                   comment_stats, competitor_stats, competitor_metrics,
                   voting_consistency, voting_matrix, sample_comments,
                   top_submissions, top_submitters, top_point_receivers>>

\* main when load_data returned None: an error message and return.
MainAbort ==
    /\ cached
    /\ data.competitors = None
    /\ page' = "load_failed"
    /\ UNCHANGED <<files, cached, load_exception, data, selected_round,
                   selected_competitor, round_id, competitor_id,
                   filtered_votes, filtered_submissions, comment_stats,
                   competitor_stats, competitor_metrics,
                   voting_consistency, voting_matrix, sample_comments,
                   top_submissions, top_submitters, top_point_receivers>>

\* One run of main over the cached tables with the sidebar set to (sr, sc).
Main ==
    /\ cached
    /\ data.competitors # None
    /\ LET competitors == data.competitors[1]
           rounds == data.rounds[1]
           submissions == data.submissions[1]
           votes == data.votes[1]
           votes_with_voters == data.votes_with_voters[1]
           submissions_with_rounds == data.submissions_with_rounds[1]
       IN \E sr \in round_names(rounds), sc \in competitor_names(competitors) :
           LET rid == IF sr # AllRounds
                      THEN Some(FirstIdByName(rounds, sr)) ELSE None
               cid == IF sc # AllCompetitors
                      THEN Some(FirstIdByName(competitors, sc)) ELSE None
               round_votes == IF sr # AllRounds
                              THEN RoundFilter(votes_with_voters, rid[1])
                              ELSE votes_with_voters
               round_subs == IF sr # AllRounds
                             THEN RoundFilter(submissions_with_rounds, rid[1])
                             ELSE submissions_with_rounds
               fv == IF sc # AllCompetitors
                     THEN CompetitorFilterVotes(round_votes, cid[1])
                     ELSE round_votes
               fs == IF sc # AllCompetitors
                     THEN CompetitorFilterSubmissions(round_subs, cid[1])
                     ELSE round_subs
               tab3 == CommentStats(fs)
               comp_df == CompetitorStats(competitors, submissions, votes)
           IN /\ selected_round' = sr
              /\ selected_competitor' = sc
              /\ round_id' = rid
              /\ competitor_id' = cid
              /\ filtered_votes' = Some(fv)
              /\ filtered_submissions' = Some(fs)
              /\ voting_consistency' = Some(VotingConsistency(fv))
              /\ voting_matrix' = Some(VotingMatrix(fv))
              /\ comment_stats' = tab3
              /\ IF tab3.error # "none"
                 THEN /\ page' = tab3.error
                      /\ sample_comments' = None
                      /\ top_submissions' = None
                      /\ competitor_stats' = None
                      /\ competitor_metrics' = None
                      /\ top_submitters' = None
                      /\ top_point_receivers' = None
                 ELSE /\ page' = "rendered"
                      /\ sample_comments' \in SampleOutcomes(fs)
                      /\ top_submissions' =
                            IF sr # AllRounds
                            THEN Some(TopSubmissions(rid[1], submissions,
                                                     votes))
                            ELSE None
                      /\ competitor_stats' =
                            IF sc = AllCompetitors
                            THEN Some(comp_df)
                            ELSE None
                      /\ competitor_metrics' =
                            IF sc = AllCompetitors THEN None
                            ELSE Some(CompetitorMetrics(cid[1],
                                                        submissions, votes))
                      /\ top_submitters' =
                            IF sc = AllCompetitors
                            THEN Some(NLargest(TopK, comp_df, "Submissions"))
                            ELSE None
                      /\ top_point_receivers' =
                            IF sc = AllCompetitors
                            THEN Some(NLargest(TopK, comp_df,
                                               "Points_Received"))
                            ELSE None
              /\ data' = CachedAfterMain(data, fv, fs)
    /\ UNCHANGED <<files, cached, load_exception>>

Next == LoadData \/ MainAbort \/ Main

Spec == Init /\ [][Next]_vars

\* =================================================================== claims
Rows(opt) == opt[1]

Ran == page \in {"rendered", "ZeroDivisionError"}

HasSubmission(f, rid, uri) ==
    \E i \in 1..Len(f.submissions) :
        /\ f.submissions[i].Round_ID = rid
        /\ f.submissions[i].Spotify_URI = uri

OrphanVote(f, v) == ~HasSubmission(f, v.Round_ID, v.Spotify_URI)

OrphanVoter(f, v) ==
    \A i \in 1..Len(f.competitors) : f.competitors[i].ID # v.Voter_ID

OrphanSubmission(f, s) ==
    \A i \in 1..Len(f.rounds) : f.rounds[i].ID # s.Round_ID

HasOrphanVote(f) ==
    \E i \in 1..Len(f.votes) : OrphanVote(f, f.votes[i])

HasOrphanVoter(f) ==
    \E i \in 1..Len(f.votes) : OrphanVoter(f, f.votes[i])

HasOrphanSubmission(f) ==
    \E i \in 1..Len(f.submissions) : OrphanSubmission(f, f.submissions[i])

ReferencesResolve(f) ==
    ~HasOrphanVote(f) /\ ~HasOrphanVoter(f) /\ ~HasOrphanSubmission(f)

TrackInTwoRounds(f) ==
    \E i, j \in 1..Len(f.submissions) :
        /\ f.submissions[i].Spotify_URI = f.submissions[j].Spotify_URI
        /\ f.submissions[i].Round_ID # f.submissions[j].Round_ID

RoundNameOf(f, rid) ==
    (CHOOSE r \in {f.rounds[i] : i \in 1..Len(f.rounds)} : r.ID = rid).Name

\* C1: whenever the files hold a vote whose (Round ID, Spotify URI) matches
\* no submission of that round (every other reference resolving), load_data
\* ends without any table (the integrity error aborts it); it never hands
\* back a vote view.
C1_OrphanVoteAborts ==
    (cached /\ HasOrphanVote(files)
        /\ ~HasOrphanVoter(files) /\ ~HasOrphanSubmission(files))
    => data = NoTables

\* C2: whenever the files hold a submission whose round is no round, or a
\* vote whose voter is no competitor (every vote naming a submission of its
\* round), load_data ends without any table; it never succeeds with the row
\* left out.
C2_OrphanSubmissionOrVoterAborts ==
    (cached /\ ~HasOrphanVote(files)
        /\ (HasOrphanSubmission(files) \/ HasOrphanVoter(files)))
    => data = NoTables

\* C3: with a track submitted in two rounds (and every reference resolving),
\* a successful load gives one enriched vote row per vote, in the votes'
\* order, each carrying the round name and the submission of the vote's own
\* round.
C3_JoinKeyedOnRoundAndTrack ==
    (data.votes_with_voters # None /\ TrackInTwoRounds(files)
        /\ ReferencesResolve(files))
    => LET vv == Rows(data.votes_with_voters)
       IN /\ Len(vv) = Len(files.votes)
          /\ \A i \in 1..Len(vv) :
                /\ vv[i].Round_ID = files.votes[i].Round_ID
                /\ vv[i].Spotify_URI = files.votes[i].Spotify_URI
                /\ vv[i].Round_ID_submission = vv[i].Round_ID
                /\ vv[i].Name = RoundNameOf(files, vv[i].Round_ID)

AllPresent(d) ==
    /\ d.competitors # None /\ d.rounds # None /\ d.submissions # None
    /\ d.votes # None /\ d.votes_with_voters # None
    /\ d.submissions_with_rounds # None

NothingComputed ==
    /\ filtered_votes = None /\ filtered_submissions = None
    /\ comment_stats = NoCommentStats
    /\ competitor_stats = None /\ competitor_metrics = None
    /\ voting_consistency = None /\ voting_matrix = None
    /\ sample_comments = None /\ top_submissions = None
    /\ top_submitters = None /\ top_point_receivers = None

\* C4: load_data returns all four tables and both views, or six Nones; after
\* any failure of a read, a date parse or a merge it returns the six Nones,
\* and main then computes no filter and no report.
C4_LoadAllOrNothing ==
    /\ AllPresent(data) \/ data = NoTables
    /\ (cached /\ load_exception = "ok") =>
            /\ AllPresent(data)
            /\ Rows(data.competitors) = files.competitors
            /\ Rows(data.rounds) = files.rounds
            /\ Rows(data.submissions) = files.submissions
            /\ Rows(data.votes) = files.votes
    /\ (cached /\ load_exception # "ok") => data = NoTables
    /\ data.competitors = None =>
            NothingComputed /\ page \in {"none", "load_failed"}

\* C4 witness: a date that does not parse, and main has run on the result.
C4_Witness ==
    /\ cached /\ load_exception = "date_error" /\ page = "load_failed"

RoundFiltered(df) ==
    IF selected_round = AllRounds THEN df
    ELSE SelectSeq(df, LAMBDA row : row.Round_ID = round_id[1])

\* C5: with a competitor selected, the filtered submissions are the
\* round-filtered enriched submissions with that Submitter ID and the
\* filtered votes are the round-filtered enriched votes with that Voter ID
\* (the votes cast), each restriction taken on its own table.
C5_CompetitorFilter ==
    (Ran /\ selected_competitor # AllCompetitors)
    => /\ competitor_id # None
       /\ \E i \in 1..Len(files.competitors) :
             /\ files.competitors[i].ID = competitor_id[1]
             /\ files.competitors[i].Name = selected_competitor
       /\ Rows(filtered_submissions) =
             SelectSeq(RoundFiltered(Rows(data.submissions_with_rounds)),
                       LAMBDA row : row.Submitter_ID = competitor_id[1])
       /\ Rows(filtered_votes) =
             SelectSeq(RoundFiltered(Rows(data.votes_with_voters)),
                       LAMBDA row : row.Voter_ID = competitor_id[1])

\* C5 witness: the selected competitor cast a vote that is kept, and another
\* competitor's vote on the selected competitor's submission is left out.
C5_Witness ==
    /\ Ran /\ selected_competitor # AllCompetitors
    /\ Rows(filtered_votes) # <<>>
    /\ Rows(filtered_submissions) # <<>>
    /\ \E i \in 1..Len(Rows(data.votes_with_voters)) :
         LET v == Rows(data.votes_with_voters)[i]
         IN /\ v.Voter_ID # competitor_id[1]
            /\ \E j \in 1..Len(Rows(filtered_submissions)) :
                  /\ Rows(filtered_submissions)[j].Spotify_URI = v.Spotify_URI
                  /\ Rows(filtered_submissions)[j].Round_ID = v.Round_ID

ByCompetitorVotes(df) ==
    IF selected_competitor = AllCompetitors THEN df
    ELSE CompetitorFilterVotes(df, competitor_id[1])

ByCompetitorSubmissions(df) ==
    IF selected_competitor = AllCompetitors THEN df
    ELSE CompetitorFilterSubmissions(df, competitor_id[1])

ByRound(df) ==
    IF selected_round = AllRounds THEN df ELSE RoundFilter(df, round_id[1])

\* C6: the filtered rows main computes (round filter, then competitor
\* filter) are the rows of the competitor filter followed by the round
\* filter, and applying either filter a second time changes nothing.
C6_FiltersCommuteAndIdempotent ==
    Ran =>
      LET vv == Rows(data.votes_with_voters)
          swr == Rows(data.submissions_with_rounds)
          fv == Rows(filtered_votes)
          fs == Rows(filtered_submissions)
      IN /\ fv = ByRound(ByCompetitorVotes(vv))
         /\ fs = ByRound(ByCompetitorSubmissions(swr))
         /\ ByRound(ByRound(vv)) = ByRound(vv)
         /\ ByRound(ByRound(swr)) = ByRound(swr)
         /\ ByCompetitorVotes(ByCompetitorVotes(vv)) = ByCompetitorVotes(vv)
         /\ ByCompetitorSubmissions(ByCompetitorSubmissions(swr))
                = ByCompetitorSubmissions(swr)
         /\ ByCompetitorVotes(ByRound(fv)) = fv
         /\ ByCompetitorSubmissions(ByRound(fs)) = fs

\* C6 witness: a round and a competitor are selected and rows remain; the
\* round filter removes a submission the competitor filter keeps, and the
\* competitor filter removes a vote the round filter keeps.
C6_Witness ==
    /\ Ran
    /\ selected_round # AllRounds /\ selected_competitor # AllCompetitors
    /\ Rows(filtered_submissions) # <<>>
    /\ Rows(filtered_votes) # <<>>
    /\ ByCompetitorSubmissions(Rows(data.submissions_with_rounds))
            # Rows(filtered_submissions)
    /\ ByRound(Rows(data.votes_with_voters)) # Rows(filtered_votes)

\* C7: a run of main whose filtered submissions or filtered votes are empty
\* completes every aggregation and raises nothing.
C7_EmptySelectionNeverRaises ==
    (filtered_votes # None
        /\ (Rows(filtered_submissions) = <<>> \/ Rows(filtered_votes) = <<>>))
    => page = "rendered"

\* The votes whose (Round ID, Spotify URI) is a submission of competitor cid.
VotesOnSubmissionsOf(f, cid) ==
    SelectSeq(f.votes, LAMBDA v :
        \E i \in 1..Len(f.submissions) :
            /\ f.submissions[i].Round_ID = v.Round_ID
            /\ f.submissions[i].Spotify_URI = v.Spotify_URI
            /\ f.submissions[i].Submitter_ID = cid)

\* C8: with every reference of the files resolving, a competitor's points
\* received in the rollup are the sum of the points of the votes whose
\* (Round ID, Spotify URI) is one of that competitor's submissions, each
\* vote once, and the average received is that sum over the number of those
\* votes; the one-competitor metric shows the same sum.
C8_PointsReceivedByRoundAndTrack ==
    ReferencesResolve(files) =>
    /\ competitor_stats # None =>
         \A i \in 1..Len(files.competitors) :
            LET mine == VotesOnSubmissionsOf(files, files.competitors[i].ID)
                row == Rows(competitor_stats)[i]
            IN /\ row.Points_Received = SumPoints(mine)
               /\ mine # <<>> =>
                    row.Avg_Points_Received = <<SumPoints(mine), Len(mine)>>
    /\ competitor_metrics # None =>
         Rows(competitor_metrics).Points_Received =
            SumPoints(VotesOnSubmissionsOf(files, competitor_id[1]))

VotesCastBy(f, cid) == SelectSeq(f.votes, LAMBDA v : v.Voter_ID = cid)

NameShared(table, name) ==
    \E i, j \in 1..Len(table) :
        i # j /\ table[i].Name = name /\ table[j].Name = name

\* C10: no page is rendered from a selected round name that two rounds
\* share or a selected competitor name that two competitors share: the
\* lookup reports the collision instead of resolving to the first row.
C10_AmbiguousNameReported ==
    page = "rendered" =>
        /\ ~NameShared(files.rounds, selected_round)
        /\ ~NameShared(files.competitors, selected_competitor)

\* Rows of a list run from the largest value down, and rows of equal value
\* run from the least key up.
DescendingTiesByKey(list, col, key) ==
    \A i, j \in 1..Len(list) :
        i < j =>
            \/ list[i][col] > list[j][col]
            \/ /\ list[i][col] = list[j][col]
               /\ Rank(list[i][key]) <= Rank(list[j][key])

\* C11: every top list of a page built from consistent files has at most
\* TopK rows, runs by descending value, and orders rows of equal value by
\* ascending key (competitor name, track URI), whatever the row order of
\* the files.
C11_TopListsTieByAscendingKey ==
    ReferencesResolve(files) =>
        /\ top_submissions # None =>
             /\ Len(Rows(top_submissions)) <= TopK
             /\ DescendingTiesByKey(Rows(top_submissions),
                                    "Points_Assigned", "Spotify_URI")
        /\ top_submitters # None =>
             /\ Len(Rows(top_submitters)) <= TopK
             /\ DescendingTiesByKey(Rows(top_submitters),
                                    "Submissions", "Name")
        /\ top_point_receivers # None =>
             /\ Len(Rows(top_point_receivers)) <= TopK
             /\ DescendingTiesByKey(Rows(top_point_receivers),
                                    "Points_Received", "Name")

\* The votes of a frame that one voter name cast in one round name.
VotesOfPair(fv, voter, round) ==
    SelectSeq(fv, LAMBDA row : row.Name_voter = voter /\ row.Name = round)

\* C12: the voter x round matrix has a row for each voter name and a column
\* for each round name of the filtered votes, and a cell for every pair of
\* them: the mean of the pair's points where the pair has a vote, and the
\* fill value 0 where the pair has none.
C12_VotingMatrixTotal ==
    voting_matrix # None =>
        LET fv == Rows(filtered_votes)
            matrix == Rows(voting_matrix)
        IN /\ {matrix.index[i] : i \in 1..Len(matrix.index)} = VoterNames(fv)
           /\ Len(matrix.index) = Cardinality(VoterNames(fv))
           /\ {matrix.columns[i] : i \in 1..Len(matrix.columns)}
                 = RoundNames(fv)
           /\ Len(matrix.columns) = Cardinality(RoundNames(fv))
           /\ DOMAIN matrix.cell = VoterNames(fv) \X RoundNames(fv)
           /\ \A v \in VoterNames(fv), r \in RoundNames(fv) :
                LET pair == VotesOfPair(fv, v, r)
                IN /\ Len(pair) = 0 => matrix.cell[v, r] = <<0, 1>>
                   /\ Len(pair) > 0 =>
                        /\ Len(matrix.cell[v, r]) = 2
                        /\ matrix.cell[v, r][1] * Len(pair)
                              = SumPoints(pair) * matrix.cell[v, r][2]

\* C12 witness: a matrix of two voters and two rounds in which one voter
\* has a vote in one round and none in the other.
C12_Witness ==
    /\ voting_matrix # None
    /\ Len(Rows(voting_matrix).index) = 2
    /\ Len(Rows(voting_matrix).columns) = 2
    /\ \E v \in VoterNames(Rows(filtered_votes)) :
         \E r, q \in RoundNames(Rows(filtered_votes)) :
            /\ VotesOfPair(Rows(filtered_votes), v, r) # <<>>
            /\ VotesOfPair(Rows(filtered_votes), v, q) = <<>>
            /\ Rows(voting_matrix).cell[v, r] # <<0, 1>>
            /\ Rows(voting_matrix).cell[v, q] = <<0, 1>>

\* The sum over a group of (n * x - total)^2, which is n^2 times the sum of
\* the squared deviations from the mean total / n.
RECURSIVE ScaledSquaredDeviations(_, _, _)
ScaledSquaredDeviations(group, n, total) ==
    IF group = <<>> THEN 0
    ELSE (n * group[1].Points_Assigned - total)
            * (n * group[1].Points_Assigned - total)
         + ScaledSquaredDeviations(Tail(group), n, total)

VotesOfVoter(fv, voter) == SelectSeq(fv, LAMBDA row : row.Name_voter = voter)

\* C13: the consistency table has exactly one entry per voter name of the
\* filtered votes (none for a voter without votes there); the entry of a
\* voter with one vote has deviation 0, and the entry of a voter with n > 1
\* votes has the sample deviation, whose square is the sum of the squared
\* deviations from the mean over n - 1.
C13_SampleDeviationZeroForOneVote ==
    voting_consistency # None =>
        LET fv == Rows(filtered_votes)
            table == Rows(voting_consistency)
        IN /\ {table[k].Name_voter : k \in 1..Len(table)} = VoterNames(fv)
           /\ Len(table) = Cardinality(VoterNames(fv))
           /\ \A k \in 1..Len(table) :
                LET group == VotesOfVoter(fv, table[k].Name_voter)
                    n == Len(group)
                IN /\ n > 0
                   /\ table[k].mean[1] * n = SumPoints(group) * table[k].mean[2]
                   /\ n = 1 => table[k].std = <<0, 1>>
                   /\ n > 1 =>
                        /\ Len(table[k].std) = 2
                        /\ table[k].std[1] * n * n * (n - 1)
                             = ScaledSquaredDeviations(group, n,
                                                       SumPoints(group))
                                  * table[k].std[2]

\* C13 witness: a voter with exactly one filtered vote has an entry with
\* deviation 0 while another competitor of the files has no filtered vote
\* and no entry.
C13_Witness ==
    /\ voting_consistency # None
    /\ \E k \in 1..Len(Rows(voting_consistency)) :
         /\ Len(VotesOfVoter(Rows(filtered_votes),
                             Rows(voting_consistency)[k].Name_voter)) = 1
         /\ Rows(voting_consistency)[k].std = <<0, 1>>
    /\ \E i \in 1..Len(files.competitors) :
         files.competitors[i].Name \notin VoterNames(Rows(filtered_votes))

\* C14: after a successful load every row of submissions_with_rounds
\* carries the name of its round, and every row of votes_with_voters
\* carries a round name, the title and artist of a submission of its track
\* and the name of its voter; none of these cells is missing.
C14_JoinedFieldsPresent ==
    AllPresent(data) =>
        /\ \A i \in 1..Len(Rows(data.submissions_with_rounds)) :
             LET row == Rows(data.submissions_with_rounds)[i]
             IN /\ row.Name # NULL
                /\ \E r \in 1..Len(files.rounds) :
                     /\ files.rounds[r].ID = row.Round_ID
                     /\ files.rounds[r].Name = row.Name
        /\ \A i \in 1..Len(Rows(data.votes_with_voters)) :
             LET row == Rows(data.votes_with_voters)[i]
             IN /\ row.Name # NULL /\ row.Title # NULL
                /\ row.Artist_s # NULL /\ row.Name_voter # NULL
                /\ \E k \in 1..Len(files.submissions) :
                     /\ files.submissions[k].Spotify_URI = row.Spotify_URI
                     /\ files.submissions[k].Title = row.Title
                     /\ files.submissions[k].Artist_s = row.Artist_s
                     /\ \E r \in 1..Len(files.rounds) :
                          /\ files.rounds[r].ID
                                = files.submissions[k].Round_ID
                          /\ files.rounds[r].Name = row.Name
                /\ \E c \in 1..Len(files.competitors) :
                     /\ files.competitors[c].ID = row.Voter_ID
                     /\ files.competitors[c].Name = row.Name_voter

\* C14 witness: a successful load of files that hold a submission of an
\* unknown round and a vote of an unknown voter, with rows in both views.
C14_Witness ==
    /\ AllPresent(data)
    /\ HasOrphanSubmission(files) /\ HasOrphanVoter(files)
    /\ Rows(data.submissions_with_rounds) # <<>>
    /\ Rows(data.votes_with_voters) # <<>>

\* C15: the sample shown holds min(SampleSize, number of commented filtered
\* submissions) rows, each a commented row of the filtered submissions and
\* none twice, and two runs of the page over the same filtered submissions
\* (no seed is passed, so every run has the same one) show the same sample.
C15_SampleReproducible ==
    /\ [](sample_comments # None =>
            LET comments_only == WithComments(Rows(filtered_submissions))
            IN /\ Cardinality(Rows(sample_comments))
                    = Min(SampleSize, Len(comments_only))
               /\ \A row \in Rows(sample_comments) :
                    /\ HasComment(row)
                    /\ \E i \in 1..Len(comments_only) :
                          comments_only[i] = row)
    /\ [][(/\ sample_comments # None
           /\ sample_comments' # None
           /\ filtered_submissions' = filtered_submissions)
              => sample_comments' = sample_comments]_vars

\* C16: once loaded, the four base tables are the tables of the files and
\* the two views are the merges of those tables, whatever pages have run
\* since; the only step that changes any of them is the load itself.
C16_LoadedTablesFrozen ==
    /\ [](AllPresent(data) =>
            /\ Rows(data.competitors) = files.competitors
            /\ Rows(data.rounds) = files.rounds
            /\ Rows(data.submissions) = files.submissions
            /\ Rows(data.votes) = files.votes
            /\ Rows(data.submissions_with_rounds)
                 = Merge(files.submissions, files.rounds,
                         "Round_ID", "ID", "_round")
            /\ \A i \in 1..Len(Rows(data.votes_with_voters)) :
                 \E k \in 1..Len(files.votes) :
                    /\ files.votes[k].Spotify_URI
                         = Rows(data.votes_with_voters)[i].Spotify_URI
                    /\ files.votes[k].Voter_ID
                         = Rows(data.votes_with_voters)[i].Voter_ID
                    /\ ~OrphanVoter(files, files.votes[k]))
    /\ [][data' # data => (~cached /\ cached')]_vars

\* C16 witness: a page rendered for one round and one competitor whose
\* filters dropped rows of both views, the cached views still whole.
C16_Witness ==
    /\ page = "rendered"
    /\ selected_round # AllRounds
    /\ selected_competitor # AllCompetitors
    /\ Len(Rows(filtered_votes)) < Len(Rows(data.votes_with_voters))
    /\ Len(Rows(filtered_submissions))
          < Len(Rows(data.submissions_with_rounds))

====
